---- MODULE Spec2Model ----
(***************************************************************************)
(* LazyLoad Plus 4.3.0: the observation-to-load state machine of the       *)
(* LazyLoad class (constructor, init, addElements, retryFailedLoads,       *)
(* loadAllNow, update, destroy, the IntersectionObserver callback, the     *)
(* per-tag loaders and _finishLoading), together with the browser pieces   *)
(* it runs on: the requestAnimationFrame queue, setTimeout timers, media   *)
(* events, the 'online' event and the clock.                               *)
(***************************************************************************)
EXTENDS Integers, Sequences, FiniteSets, TLC

(* ------------------------------ bounds -------------------------------- *)
\* latest instant of the clock (Date.now() in model time units)
MaxTime == 3
\* most reveals (load attempts) followed in one behaviour
MaxAttempts == 2
\* most callbacks waiting for one animation frame
MaxRaf == 6

(* --------------------------- the document ----------------------------- *)
\* the top-level elements handed to the controller, in document order
DocOrder == <<"e1", "e2">>
Elements == {DocOrder[i] : i \in 1..Len(DocOrder)}
\* the <img> child a <picture> may hold, and the <source> child of a
\* <picture> or <video>
ImgChild(e) == IF e = "e1" THEN "e1_img" ELSE "e2_img"
SourceChild(e) == IF e = "e1" THEN "e1_source" ELSE "e2_source"
Nodes == Elements \cup {ImgChild(e) : e \in Elements} \cup {SourceChild(e) : e \in Elements}
\* a value that is not an HTMLElement (a string handed to addElements)
NonElement == "text"
\* getAttribute() of a missing attribute
Null == <<>>

(* defaults (settings the model keeps at their default names) *)
src == "data-src"
srcset == "data-srcset"
sizes == "data-sizes"
poster == "data-poster"
data_media == "data-media"
class_loading == "lazyloading"
class_loaded == "lazyloaded"
class_error == "lazyerror"
IS_BROWSER == TRUE

\* a DOM node: its tag ("none": no such node), the data attributes it still
\* carries, its real properties (each Null or the <<node, attribute>> whose
\* value it was given) and its class list
Props == {"src", "srcset", "sizes", "poster", "media", "backgroundImage"}
NoProps == [p \in Props |-> Null]
Node(tag, attrs, classes) == [tag |-> tag, attrs |-> attrs, props |-> NoProps, classes |-> classes]
Absent == Node("none", {}, {})

\* the markup one lazy element can have: its tag and data attributes, whether
\* it holds an <img> child and a <source> child, and their data attributes
Shape(tag, attrs, img, imgAttrs, source, sourceAttrs) ==
  [tag |-> tag, attrs |-> attrs, img |-> img, imgAttrs |-> imgAttrs,
   source |-> source, sourceAttrs |-> sourceAttrs]
Shapes ==
  { Shape("img", {src}, FALSE, {}, FALSE, {}),
    Shape("img", {srcset, sizes}, FALSE, {}, FALSE, {}),
    Shape("img", {}, FALSE, {}, FALSE, {}),
    Shape("picture", {src}, TRUE, {src}, TRUE, {srcset, sizes, data_media}),
    Shape("picture", {}, TRUE, {}, TRUE, {srcset}),
    Shape("picture", {src}, FALSE, {}, FALSE, {}),
    Shape("video", {poster}, FALSE, {}, TRUE, {src}),
    Shape("video", {poster}, FALSE, {}, TRUE, {}),
    Shape("iframe", {src}, FALSE, {}, FALSE, {}),
    Shape("iframe", {}, FALSE, {}, FALSE, {}),
    Shape("div", {src}, FALSE, {}, FALSE, {}),
    Shape("div", {}, FALSE, {}, FALSE, {}) }

\* the document for a choice of shape per element
MakeDom(shape) ==
  [n \in Nodes |->
     IF n \in Elements THEN Node(shape[n].tag, shape[n].attrs, {})
     ELSE LET e == CHOOSE x \in Elements : n \in {ImgChild(x), SourceChild(x)}
          IN IF n = ImgChild(e)
             THEN (IF shape[e].img THEN Node("img", shape[e].imgAttrs, {}) ELSE Absent)
             ELSE (IF shape[e].source THEN Node("source", shape[e].sourceAttrs, {}) ELSE Absent)]

(* ----------------------------- settings ------------------------------- *)
\* settings.load_delay when a delay is configured
LoadDelay == 2
\* settings.retry_backoff_base_ms, in model time units
BackoffBase == 1
\* settings.retry_max_attempts
RetryMax == 2

Settings(delay, skip, online, v2) ==
  [load_delay |-> delay, skip_invisible |-> skip, retry_on_online |-> online,
   track_visibility_v2 |-> v2,
   retry_backoff_base_ms |-> BackoffBase, retry_max_attempts |-> RetryMax]

\* the option sets explored: the defaults, and each behavioural option on its own
DefaultConfig == Settings(0, FALSE, TRUE, FALSE)
Configs ==
  { DefaultConfig,
    Settings(LoadDelay, FALSE, TRUE, FALSE),
    Settings(0, TRUE, FALSE, FALSE),
    Settings(0, FALSE, TRUE, TRUE) }


(* ------------------------------- state -------------------------------- *)
VARIABLES
  settings,          \* this.settings (fixed by the constructor)
  ioAvailable,       \* typeof window.IntersectionObserver === 'function'
  v2Supported,       \* 'isVisible' in IntersectionObserverEntry.prototype
  constructed,       \* the constructor has run
  observer,          \* this._observer is not null
  ioTargets,         \* the targets registered with the live detector
  ioStale,           \* targets once registered, whose queued entries may still arrive
  elementsToObserve, \* this._elementsToObserve, in insertion order
  observedByIO,      \* this._observedByIO
  errorElements,     \* this._errorElements, in insertion order
  retryData,         \* this._retryData: node -> [count, nextAttemptAt]
  onlineHandler,     \* this._onlineHandler is attached to window 'online'
  dom,               \* the document: node -> Node
  media,             \* nodes whose media is loading and has not reported an outcome
  raf,               \* callbacks queued by requestAnimationFrame for the next frame
  timers,            \* pending setTimeout(actualLoad, load_delay): [a, due]
  attempts,          \* one record per _revealElement call, in call order
  now,               \* Date.now()
  onScreen,          \* elements whose bounding rect meets the viewport
  lazy,              \* the elements of the page that match settings.elements_selector
  triggered,         \* history: elements for which a cause of reveal occurred
  traced,            \* history: whether lastOp is kept in this behaviour
  lastOp             \* history: the operation that produced this state, if traced

vars == <<settings, ioAvailable, v2Supported, constructed, observer, ioTargets, ioStale,
          elementsToObserve, observedByIO, errorElements, retryData, onlineHandler,
          dom, media, raf, timers, attempts, now, onScreen, lazy, triggered, traced,
          lastOp>>

\* the controller and its environment as one value, for the operators below
State ==
  [settings |-> settings, ioAvailable |-> ioAvailable, v2Supported |-> v2Supported,
   observer |-> observer, ioTargets |-> ioTargets, ioStale |-> ioStale,
   elementsToObserve |-> elementsToObserve, observedByIO |-> observedByIO,
   errorElements |-> errorElements, retryData |-> retryData,
   onlineHandler |-> onlineHandler, dom |-> dom, media |-> media, raf |-> raf,
   timers |-> timers,
   attempts |-> attempts, now |-> now, onScreen |-> onScreen, lazy |-> lazy]

Commit(s) ==
  /\ observer' = s.observer
  /\ ioTargets' = s.ioTargets
  /\ ioStale' = s.ioStale
  /\ elementsToObserve' = s.elementsToObserve
  /\ observedByIO' = s.observedByIO
  /\ errorElements' = s.errorElements
  /\ retryData' = s.retryData
  /\ onlineHandler' = s.onlineHandler
  /\ dom' = s.dom
  /\ media' = s.media
  /\ raf' = s.raf
  /\ timers' = s.timers
  /\ attempts' = s.attempts
  /\ UNCHANGED <<settings, ioAvailable, v2Supported, now, onScreen, lazy, traced>>

(* ------------------- Set and WeakMap, as the code uses them ----------- *)
Has(set, x) == \E i \in 1..Len(set) : set[i] = x
SetAdd(set, x) == IF Has(set, x) THEN set ELSE Append(set, x)
SetDelete(set, x) == SelectSeq(set, LAMBDA y : y # x)
Members(set) == {set[i] : i \in 1..Len(set)}
MapGet(map, k, default) == IF k \in DOMAIN map THEN map[k] ELSE default
MapSet(map, k, v) == [x \in (DOMAIN map) \cup {k} |-> IF x = k THEN v ELSE map[x]]
MapDelete(map, k) == [x \in (DOMAIN map) \ {k} |-> map[x]]
EmptyMap == [x \in {} |-> 0]

(* ------------------------- module-level helpers ----------------------- *)
\* a callback handed to window.requestAnimationFrame
Cb(k, n, c, a, ok, d) == [k |-> k, n |-> n, c |-> c, a |-> a, ok |-> ok, d |-> d]
requestAnimationFrame(s, cb) == [s EXCEPT !.raf = Append(@, cb)]

_getAttribute(s, n, name) == IF name \in s.dom[n].attrs THEN <<n, name>> ELSE Null
_removeAttribute(s, n, name) == [s EXCEPT !.dom[n].attrs = @ \ {name}]
\* the assignment n[prop] = value; a source given to an img or an iframe starts
\* its load
SetProp(s, n, prop, value) ==
  LET s1 == [s EXCEPT !.dom[n].props[prop] = value]
  IN IF \/ s.dom[n].tag = "img" /\ prop \in {"src", "srcset"}
        \/ s.dom[n].tag = "iframe" /\ prop = "src"
     THEN [s1 EXCEPT !.media = @ \cup {n}]
     ELSE s1
\* videoElement.load()
load(s, videoElement) == [s EXCEPT !.media = @ \cup {videoElement}]

_addClass(s, n, className) ==
  IF IS_BROWSER THEN requestAnimationFrame(s, Cb("addClass", n, className, 0, TRUE, ""))
  ELSE [s EXCEPT !.dom[n].classes = @ \cup {className}]

_removeClass(s, n, className) ==
  IF IS_BROWSER THEN requestAnimationFrame(s, Cb("removeClass", n, className, 0, TRUE, ""))
  ELSE [s EXCEPT !.dom[n].classes = @ \ {className}]

_isElementVisible(s, e) == IS_BROWSER /\ e \in s.onScreen

\* the invocation of a settings callback (callback_enter, callback_load,
\* callback_error, callback_finish) on behalf of attempt a
Invoke(s, a, name) == [s EXCEPT !.attempts[a].log = Append(@, name)]

(* ----------------------------- _finishLoading ------------------------- *)
MsgEvent == "event"
MsgImage == "Image has no source data (data-src or data-srcset)"
MsgPicture == "LazyLoad: No <img> tag found in <picture>."
MsgVideo == "Video has no valid sources"
MsgIframe == "Iframe has no source (data-src)"

_finishLoading(s, a, element, success, errorEvent) ==
  requestAnimationFrame(s, Cb("performFinishActions", element, "", a, success, errorEvent))

\* faulty variant: callback_finish runs before callback_load / callback_error
performFinishActions_finishFirst(s, a, element, success, errorEvent) ==
  LET s1 == Invoke(_removeClass(s, element, class_loading), a, "finish")
      s2 == IF success
            THEN LET t1 == _addClass(s1, element, class_loaded)
                     t2 == [t1 EXCEPT !.errorElements = SetDelete(@, element),
                                      !.retryData = MapDelete(@, element)]
                 IN Invoke(t2, a, "load")
            ELSE LET t1 == _addClass(s1, element, class_error)
                     t2 == [t1 EXCEPT !.errorElements = SetAdd(@, element)]
                 IN Invoke([t2 EXCEPT !.attempts[a].detail = errorEvent], a, "error")
      s4 == [s2 EXCEPT !.dom[element].attrs = @ \ {src, srcset, sizes, poster, data_media}]
  IN [s4 EXCEPT !.attempts[a].stage = "finalized", !.attempts[a].finalizedOn = element]

performFinishActions(s, a, element, success, errorEvent) ==
  LET s1 == _removeClass(s, element, class_loading)
      s2 == IF success
            THEN LET t1 == _addClass(s1, element, class_loaded)
                     t2 == [t1 EXCEPT !.errorElements = SetDelete(@, element),
                                      !.retryData = MapDelete(@, element)]
                 IN Invoke(t2, a, "load")
            ELSE LET t1 == _addClass(s1, element, class_error)
                     t2 == [t1 EXCEPT !.errorElements = SetAdd(@, element)]
                 IN Invoke([t2 EXCEPT !.attempts[a].detail = errorEvent], a, "error")
      s3 == Invoke(s2, a, "finish")
      s4 == [s3 EXCEPT !.dom[element].attrs = @ \ {src, srcset, sizes, poster, data_media}]
  IN [s4 EXCEPT !.attempts[a].stage = "finalized", !.attempts[a].finalizedOn = element]

(* ------------------------------ the loaders --------------------------- *)
\* the closure state of one _revealElement call: the element revealed, the
\* node its media listeners sit on, the event types listened for, the
\* hasFired latch, the attribute values captured by actualLoad / _loadImage,
\* the settings callbacks invoked so far and the error passed to callback_error;
\* loadingApplied: the class_loading change queued by this call has been made
NewAttempt(element) ==
  [el |-> element, target |-> element, stage |-> "revealed", listening |-> {},
   hasFired |-> FALSE, srcV |-> Null, srcsetV |-> Null, sizesV |-> Null, posterV |-> Null,
   log |-> <<"enter">>, detail |-> "", finalizedOn |-> "", signals |-> 0,
   loadingApplied |-> FALSE]

\* faulty variant: completeLoad without the hasFired latch and without
\* detaching the listeners
completeLoadImage_noLatch(s, a, success, eventOrMessage) ==
  _finishLoading(s, a, s.attempts[a].target, success, eventOrMessage)

\* completeLoad of _loadImage
completeLoadImage(s, a, success, eventOrMessage) ==
  IF s.attempts[a].hasFired THEN s
  ELSE LET s1 == [s EXCEPT !.attempts[a].hasFired = TRUE]
           s2 == _finishLoading(s1, a, s1.attempts[a].target, success, eventOrMessage)
       IN [s2 EXCEPT !.attempts[a].listening = {}]

\* faulty variant: no failure is raised when neither src nor srcset was read
applyImageAttributes_noSourceCheck(s, a) ==
  LET at == s.attempts[a]
      img == at.target
      s1 == IF at.sizesV # Null
            THEN _removeAttribute(SetProp(s, img, "sizes", at.sizesV), img, sizes) ELSE s
      s2 == IF at.srcsetV # Null
            THEN _removeAttribute(SetProp(s1, img, "srcset", at.srcsetV), img, srcset) ELSE s1
  IN IF at.srcV # Null
     THEN _removeAttribute(SetProp(s2, img, "src", at.srcV), img, src) ELSE s2

applyImageAttributes(s, a) ==
  LET at == s.attempts[a]
      img == at.target
      s1 == IF at.sizesV # Null
            THEN _removeAttribute(SetProp(s, img, "sizes", at.sizesV), img, sizes) ELSE s
      s2 == IF at.srcsetV # Null
            THEN _removeAttribute(SetProp(s1, img, "srcset", at.srcsetV), img, srcset) ELSE s1
      s3 == IF at.srcV # Null
            THEN _removeAttribute(SetProp(s2, img, "src", at.srcV), img, src) ELSE s2
  IN IF at.srcV = Null /\ at.srcsetV = Null
     THEN completeLoadImage(s3, a, FALSE, MsgImage)
     ELSE s3

_loadImage(s, a, imgElement, srcV, srcsetV, sizesV) ==
  LET s1 == [s EXCEPT !.attempts[a].target = imgElement,
                      !.attempts[a].hasFired = FALSE,
                      !.attempts[a].listening = {"load", "error"},
                      !.attempts[a].srcV = srcV,
                      !.attempts[a].srcsetV = srcsetV,
                      !.attempts[a].sizesV = sizesV]
  IN IF IS_BROWSER
     THEN requestAnimationFrame(s1, Cb("applyImageAttributes", imgElement, "", a, TRUE, ""))
     ELSE applyImageAttributes(s1, a)

applyPictureAttributes(s, a) ==
  LET pictureElement == s.attempts[a].el
      source == SourceChild(pictureElement)
      imgElement == ImgChild(pictureElement)
      srcsetVal == _getAttribute(s, source, srcset)
      sizesVal == _getAttribute(s, source, sizes)
      mediaVal == _getAttribute(s, source, data_media)
      s1 == IF mediaVal # Null
            THEN _removeAttribute(SetProp(s, source, "media", mediaVal), source, data_media) ELSE s
      s2 == IF sizesVal # Null
            THEN _removeAttribute(SetProp(s1, source, "sizes", sizesVal), source, sizes) ELSE s1
      s3 == IF srcsetVal # Null
            THEN _removeAttribute(SetProp(s2, source, "srcset", srcsetVal), source, srcset) ELSE s2
      s4 == IF s.dom[source].tag = "source" THEN s3 ELSE s
  IN _loadImage(s4, a, imgElement, _getAttribute(s4, imgElement, src),
                _getAttribute(s4, imgElement, srcset), _getAttribute(s4, imgElement, sizes))

_loadPicture(s, a, pictureElement) ==
  IF s.dom[ImgChild(pictureElement)].tag # "img"
  THEN _finishLoading(s, a, pictureElement, FALSE, MsgPicture)
  ELSE IF IS_BROWSER
       THEN requestAnimationFrame(s, Cb("applyPictureAttributes", pictureElement, "", a, TRUE, ""))
       ELSE applyPictureAttributes(s, a)

\* completeLoad of _loadVideo
completeLoadVideo(s, a, success, event) ==
  IF s.attempts[a].hasFired THEN s
  ELSE LET s1 == [s EXCEPT !.attempts[a].hasFired = TRUE]
           s2 == _finishLoading(s1, a, s1.attempts[a].el, success, event)
       IN [s2 EXCEPT !.attempts[a].listening = {}]

applyVideoAttributes(s, a) ==
  LET at == s.attempts[a]
      videoElement == at.el
      source == SourceChild(videoElement)
      srcVal == IF s.dom[source].tag = "source" THEN _getAttribute(s, source, src) ELSE Null
      hasVideoSources == srcVal # Null
      s1 == IF hasVideoSources
            THEN _removeAttribute(SetProp(s, source, "src", srcVal), source, src) ELSE s
      s2 == IF at.posterV # Null
            THEN _removeAttribute(SetProp(s1, videoElement, "poster", at.posterV), videoElement, poster)
            ELSE s1
  IN IF hasVideoSources THEN load(s2, videoElement)
     ELSE completeLoadVideo(s2, a, FALSE, MsgVideo)

_loadVideo(s, a, videoElement, posterV) ==
  LET s1 == [s EXCEPT !.attempts[a].hasFired = FALSE,
                      !.attempts[a].listening = {"canplaythrough", "error"},
                      !.attempts[a].posterV = posterV]
  IN IF IS_BROWSER
     THEN requestAnimationFrame(s1, Cb("applyVideoAttributes", videoElement, "", a, TRUE, ""))
     ELSE applyVideoAttributes(s1, a)

onIframeLoad(s, a) ==
  IF s.attempts[a].hasFired THEN s
  ELSE LET s1 == [s EXCEPT !.attempts[a].hasFired = TRUE]
           s2 == _finishLoading(s1, a, s1.attempts[a].el, TRUE, "")
       IN [s2 EXCEPT !.attempts[a].listening = {}]

applyIframeAttributes(s, a) ==
  LET at == s.attempts[a]
      iframeElement == at.el
  IN IF at.srcV # Null
     THEN _removeAttribute(SetProp(s, iframeElement, "src", at.srcV), iframeElement, src)
     ELSE IF at.hasFired THEN s
          ELSE LET s1 == [s EXCEPT !.attempts[a].hasFired = TRUE]
                   s2 == _finishLoading(s1, a, iframeElement, FALSE, MsgIframe)
               IN [s2 EXCEPT !.attempts[a].listening = {}]

_loadIframe(s, a, iframeElement, srcV) ==
  LET s1 == [s EXCEPT !.attempts[a].hasFired = FALSE,
                      !.attempts[a].listening = {"load"},
                      !.attempts[a].srcV = srcV]
  IN IF IS_BROWSER
     THEN requestAnimationFrame(s1, Cb("applyIframeAttributes", iframeElement, "", a, TRUE, ""))
     ELSE applyIframeAttributes(s1, a)

MsgNull == "null"

\* faulty variant: the background branch reports success whatever it found
loadBgImage_alwaysSuccess(s, a) ==
  LET at == s.attempts[a]
      element == at.el
      s1 == IF at.srcV # Null
            THEN _removeAttribute(SetProp(s, element, "backgroundImage", at.srcV), element, src)
            ELSE s
  IN _finishLoading(s1, a, element, TRUE, MsgNull)

loadBgImage(s, a) ==
  LET at == s.attempts[a]
      element == at.el
      s1 == IF at.srcV # Null
            THEN _removeAttribute(SetProp(s, element, "backgroundImage", at.srcV), element, src)
            ELSE s
  IN _finishLoading(s1, a, element, at.srcV # Null, MsgNull)

(* ---------------------------- _revealElement -------------------------- *)
\* history: the class_loading change just requested belongs to attempt a
MarkLoading(s, a) ==
  IF IS_BROWSER THEN [s EXCEPT !.raf[Len(s.raf)].a = a]
  ELSE [s EXCEPT !.attempts[a].loadingApplied = TRUE]

actualLoad(s, a) ==
  LET element == s.attempts[a].el
      s1 == IF class_error \in s.dom[element].classes
            THEN _removeClass(s, element, class_error) ELSE s
      s2 == [s1 EXCEPT !.errorElements = SetDelete(@, element)]
      s3 == MarkLoading(_addClass(s2, element, class_loading), a)
      s4 == [s3 EXCEPT !.attempts[a].stage = "started"]
      srcV == _getAttribute(s4, element, src)
      srcsetV == _getAttribute(s4, element, srcset)
      sizesV == _getAttribute(s4, element, sizes)
      posterV == _getAttribute(s4, element, poster)
      tagName == s4.dom[element].tag
  IN CASE tagName = "img" -> _loadImage(s4, a, element, srcV, srcsetV, sizesV)
       [] tagName = "picture" -> _loadPicture(s4, a, element)
       [] tagName = "video" -> _loadVideo(s4, a, element, posterV)
       [] tagName = "iframe" -> _loadIframe(s4, a, element, srcV)
       [] OTHER ->
            LET s5 == [s4 EXCEPT !.attempts[a].srcV = srcV]
            IN IF IS_BROWSER
               THEN requestAnimationFrame(s5, Cb("loadBgImage", element, "", a, TRUE, ""))
               ELSE loadBgImage(s5, a)

\* faulty variant: the load starts at once whatever load_delay says
_revealElement_noDelay(s, element) ==
  LET s1 == [s EXCEPT !.attempts = Append(@, NewAttempt(element))]
  IN actualLoad(s1, Len(s1.attempts))

_revealElement(s, element) ==
  LET s1 == [s EXCEPT !.attempts = Append(@, NewAttempt(element))]
      a == Len(s1.attempts)
  IN IF s.settings.load_delay > 0 /\ IS_BROWSER
     THEN [s1 EXCEPT !.timers = @ \cup {[a |-> a, due |-> s.now + s.settings.load_delay]}]
     ELSE actualLoad(s1, a)

(* ------------------------- the visibility detector -------------------- *)
observe(s, e) == [s EXCEPT !.ioTargets = @ \cup {e}, !.ioStale = @ \cup {e}]
unobserve(s, e) == [s EXCEPT !.ioTargets = @ \ {e}]
disconnect(s) == [s EXCEPT !.ioTargets = {}]

\* observerOptions.trackVisibility as init() sets it
trackVisibility(s) == s.settings.track_visibility_v2 /\ s.v2Supported

\* an IntersectionObserverEntry: isVisible exists on it where the browser has v2
Entry(target, isIntersecting, isVisible) ==
  [target |-> target, isIntersecting |-> isIntersecting, isVisible |-> isVisible]

\* faulty variant: the visibility confirmation is not read
isEffectivelyIntersecting_ignoresVisibility(s, entry) == entry.isIntersecting

\* faulty variant: every delivered entry counts as intersecting
isEffectivelyIntersecting_anyEntry(s, entry) == TRUE

isEffectivelyIntersecting(s, entry) ==
  IF trackVisibility(s) /\ s.v2Supported
  THEN IF entry.isIntersecting /\ ~entry.isVisible THEN FALSE
       ELSE IF entry.isVisible THEN TRUE
       ELSE entry.isIntersecting
  ELSE entry.isIntersecting

\* faulty variant: the entry of a target that is no longer tracked is handled
\* like any other
observerCallback_noGuard(s, entry) ==
  LET targetElement == entry.target
  IN IF isEffectivelyIntersecting(s, entry)
        \/ (s.settings.skip_invisible /\ _isElementVisible(s, targetElement))
     THEN LET s1 == IF s.observer THEN unobserve(s, targetElement) ELSE s
              s2 == [s1 EXCEPT !.observedByIO = @ \ {targetElement},
                               !.elementsToObserve = SetDelete(@, targetElement)]
          IN _revealElement(s2, targetElement)
     ELSE s

\* faulty variant: a revealed element stays registered with the detector
observerCallback_keepsWatching(s, entry) ==
  LET targetElement == entry.target
  IN IF ~Has(s.elementsToObserve, targetElement) /\ targetElement \notin s.observedByIO
     THEN LET s1 == IF s.observer THEN unobserve(s, targetElement) ELSE s
          IN [s1 EXCEPT !.observedByIO = @ \ {targetElement}]
     ELSE IF isEffectivelyIntersecting(s, entry)
             \/ (s.settings.skip_invisible /\ _isElementVisible(s, targetElement))
          THEN LET s2 == [s EXCEPT !.observedByIO = @ \ {targetElement},
                                   !.elementsToObserve = SetDelete(@, targetElement)]
               IN _revealElement(s2, targetElement)
          ELSE s

\* faulty variant: a target reported as not intersecting is no longer watched
observerCallback_unobservesOnExit(s, entry) ==
  LET targetElement == entry.target
  IN IF ~Has(s.elementsToObserve, targetElement) /\ targetElement \notin s.observedByIO
     THEN LET s1 == IF s.observer THEN unobserve(s, targetElement) ELSE s
          IN [s1 EXCEPT !.observedByIO = @ \ {targetElement}]
     ELSE LET s1 == IF s.observer THEN unobserve(s, targetElement) ELSE s
              s2 == [s1 EXCEPT !.observedByIO = @ \ {targetElement}]
          IN IF isEffectivelyIntersecting(s, entry)
                \/ (s.settings.skip_invisible /\ _isElementVisible(s, targetElement))
             THEN _revealElement([s2 EXCEPT !.elementsToObserve = SetDelete(@, targetElement)],
                                 targetElement)
             ELSE s2

\* the IntersectionObserver callback, for one entry
observerCallback(s, entry) ==
  LET targetElement == entry.target
  IN IF ~Has(s.elementsToObserve, targetElement) /\ targetElement \notin s.observedByIO
     THEN LET s1 == IF s.observer THEN unobserve(s, targetElement) ELSE s
          IN [s1 EXCEPT !.observedByIO = @ \ {targetElement}]
     ELSE IF isEffectivelyIntersecting(s, entry)
             \/ (s.settings.skip_invisible /\ _isElementVisible(s, targetElement))
          THEN LET s1 == IF s.observer THEN unobserve(s, targetElement) ELSE s
                   s2 == [s1 EXCEPT !.observedByIO = @ \ {targetElement},
                                    !.elementsToObserve = SetDelete(@, targetElement)]
               IN _revealElement(s2, targetElement)
          ELSE s

(* ------------------------------ loadAllNow ---------------------------- *)
RECURSIVE loadAllNowLoop_keepsWatching(_, _)
\* faulty variant: the element is revealed without being unregistered
loadAllNowLoop_keepsWatching(s, elementsToProcessImmediately) ==
  IF elementsToProcessImmediately = <<>> THEN s
  ELSE LET element == Head(elementsToProcessImmediately)
           s1 == IF Has(s.elementsToObserve, element)
                 THEN _revealElement(
                        [s EXCEPT !.elementsToObserve = SetDelete(@, element)], element)
                 ELSE s
       IN loadAllNowLoop_keepsWatching(s1, Tail(elementsToProcessImmediately))

RECURSIVE loadAllNowLoop(_, _)
loadAllNowLoop(s, elementsToProcessImmediately) ==
  IF elementsToProcessImmediately = <<>> THEN s
  ELSE LET element == Head(elementsToProcessImmediately)
           s1 == IF Has(s.elementsToObserve, element)
                 THEN LET t1 == IF s.observer /\ element \in s.observedByIO
                                THEN [unobserve(s, element) EXCEPT !.observedByIO = @ \ {element}]
                                ELSE s
                          t2 == [t1 EXCEPT !.elementsToObserve = SetDelete(@, element)]
                      IN _revealElement(t2, element)
                 ELSE s
       IN loadAllNowLoop(s1, Tail(elementsToProcessImmediately))

loadAllNow(s) == loadAllNowLoop(s, s.elementsToObserve)

(* --------------------------------- init ------------------------------- *)
RECURSIVE initObserveLoop_alwaysObserves(_, _)
\* faulty variant: the on-screen test is left out, every element is observed
initObserveLoop_alwaysObserves(s, queue) ==
  IF queue = <<>> THEN s
  ELSE LET element == Head(queue)
           s1 == IF Has(s.elementsToObserve, element) /\ element \notin s.observedByIO
                 THEN [(IF s.observer THEN observe(s, element) ELSE s)
                         EXCEPT !.observedByIO = @ \cup {element}]
                 ELSE s
       IN initObserveLoop_alwaysObserves(s1, Tail(queue))

RECURSIVE initObserveLoop(_, _)
initObserveLoop(s, queue) ==
  IF queue = <<>> THEN s
  ELSE LET element == Head(queue)
           s1 == IF Has(s.elementsToObserve, element) /\ element \notin s.observedByIO
                 THEN IF s.settings.skip_invisible /\ _isElementVisible(s, element)
                      THEN _revealElement(
                             [s EXCEPT !.elementsToObserve = SetDelete(@, element)], element)
                      ELSE [(IF s.observer THEN observe(s, element) ELSE s)
                              EXCEPT !.observedByIO = @ \cup {element}]
                 ELSE s
       IN initObserveLoop(s1, Tail(queue))

init(s) ==
  LET s1 == IF s.observer /\ IS_BROWSER
            THEN [disconnect(s) EXCEPT !.observedByIO = {}] ELSE s
  IN IF ~IS_BROWSER \/ ~s.ioAvailable
     THEN loadAllNow(s1)
     ELSE LET s2 == [s1 EXCEPT !.observer = TRUE]
          IN initObserveLoop(s2, s2.elementsToObserve)

(* ------------------------------ addElements --------------------------- *)
\* element instanceof HTMLElement
isHTMLElement(x) == x \in Nodes

RECURSIVE admitLoop_stopsAtNonElement(_, _, _)
\* faulty variant: the first value that is not an element ends the loop
admitLoop_stopsAtNonElement(s, elementsArray, newElementsAddedCount) ==
  IF elementsArray = <<>> THEN [s |-> s, count |-> newElementsAddedCount]
  ELSE LET element == Head(elementsArray)
       IN IF ~isHTMLElement(element)
          THEN [s |-> s, count |-> newElementsAddedCount]
          ELSE LET isLoaded == class_loaded \in s.dom[element].classes
                   isKnownError == Has(s.errorElements, element)
                   hasErrorClass == class_error \in s.dom[element].classes
               IN IF ~Has(s.elementsToObserve, element) /\ element \notin s.observedByIO
                     /\ ~isLoaded /\ ~isKnownError
                  THEN LET s1 == IF hasErrorClass
                                 THEN _removeClass(s, element, class_error) ELSE s
                           s2 == [s1 EXCEPT !.elementsToObserve = SetAdd(@, element)]
                       IN admitLoop_stopsAtNonElement(s2, Tail(elementsArray),
                                                      newElementsAddedCount + 1)
                  ELSE admitLoop_stopsAtNonElement(s, Tail(elementsArray),
                                                   newElementsAddedCount)

RECURSIVE admitLoop_keepsErrorClass(_, _, _)
\* faulty variant: an admitted element keeps the error class it carries
admitLoop_keepsErrorClass(s, elementsArray, newElementsAddedCount) ==
  IF elementsArray = <<>> THEN [s |-> s, count |-> newElementsAddedCount]
  ELSE LET element == Head(elementsArray)
       IN IF ~isHTMLElement(element)
          THEN admitLoop_keepsErrorClass(s, Tail(elementsArray), newElementsAddedCount)
          ELSE LET isLoaded == class_loaded \in s.dom[element].classes
                   isKnownError == Has(s.errorElements, element)
               IN IF ~Has(s.elementsToObserve, element) /\ element \notin s.observedByIO
                     /\ ~isLoaded /\ ~isKnownError
                  THEN LET s2 == [s EXCEPT !.elementsToObserve = SetAdd(@, element)]
                       IN admitLoop_keepsErrorClass(s2, Tail(elementsArray),
                                                    newElementsAddedCount + 1)
                  ELSE admitLoop_keepsErrorClass(s, Tail(elementsArray),
                                                 newElementsAddedCount)

RECURSIVE admitLoop(_, _, _)
\* the first forEach of addElements; returns the state and newElementsAddedCount
admitLoop(s, elementsArray, newElementsAddedCount) ==
  IF elementsArray = <<>> THEN [s |-> s, count |-> newElementsAddedCount]
  ELSE LET element == Head(elementsArray)
       IN IF ~isHTMLElement(element)
          THEN admitLoop(s, Tail(elementsArray), newElementsAddedCount)
          ELSE LET isLoaded == class_loaded \in s.dom[element].classes
                   isKnownError == Has(s.errorElements, element)
                   hasErrorClass == class_error \in s.dom[element].classes
               IN IF ~Has(s.elementsToObserve, element) /\ element \notin s.observedByIO
                     /\ ~isLoaded /\ ~isKnownError
                  THEN LET s1 == IF hasErrorClass
                                 THEN _removeClass(s, element, class_error) ELSE s
                           s2 == [s1 EXCEPT !.elementsToObserve = SetAdd(@, element)]
                       IN admitLoop(s2, Tail(elementsArray), newElementsAddedCount + 1)
                  ELSE admitLoop(s, Tail(elementsArray), newElementsAddedCount)

RECURSIVE addObserveLoop(_, _)
\* the second forEach of addElements, run when this._observer exists
addObserveLoop(s, queue) ==
  IF queue = <<>> THEN s
  ELSE LET element == Head(queue)
           s1 == IF Has(s.elementsToObserve, element) /\ element \notin s.observedByIO
                 THEN IF s.settings.skip_invisible /\ _isElementVisible(s, element)
                      THEN _revealElement(
                             [s EXCEPT !.elementsToObserve = SetDelete(@, element)], element)
                      ELSE [observe(s, element) EXCEPT !.observedByIO = @ \cup {element}]
                 ELSE s
       IN addObserveLoop(s1, Tail(queue))

\* an argument of addElements / update / the constructor: nothing (undefined),
\* or an array of values
NoArg == [given |-> FALSE, els |-> <<>>]
Arg(els) == [given |-> TRUE, els |-> els]

\* faulty variant: without a detector the admitted elements are left in the queue
addElements_noInit(s, elementsToAdd) ==
  IF ~elementsToAdd.given THEN s
  ELSE LET r == admitLoop(s, elementsToAdd.els, 0)
       IN IF r.count > 0 /\ r.s.observer
          THEN addObserveLoop(r.s, r.s.elementsToObserve)
          ELSE r.s

addElements(s, elementsToAdd) ==
  IF ~elementsToAdd.given THEN s
  ELSE LET r == admitLoop(s, elementsToAdd.els, 0)
       IN IF r.count > 0
          THEN IF r.s.observer
               THEN addObserveLoop(r.s, r.s.elementsToObserve)
               ELSE IF IS_BROWSER /\ r.s.ioAvailable /\ Len(r.s.elementsToObserve) > 0
                    THEN init(r.s)
                    ELSE r.s
          ELSE r.s

(* ---------------------------- retryFailedLoads ------------------------ *)
RetryInfo(count, nextAttemptAt) == [count |-> count, nextAttemptAt |-> nextAttemptAt]

\* faulty variant: the exponent is the new count itself
backoffDelayForNext_fromCount(s, count) == s.settings.retry_backoff_base_ms * (2 ^ count)

\* the wait set before the attempt after the count-th retry
backoffDelayForNext(s, count) == s.settings.retry_backoff_base_ms * (2 ^ (count - 1))

RECURSIVE retryScan_capOffByOne(_, _, _)
\* faulty variant: the scan lets an element through while its count equals the cap
retryScan_capOffByOne(s, elementsPreviouslyInError, elementsToActuallyRetryNow) ==
  IF elementsPreviouslyInError = <<>>
  THEN [s |-> s, retry |-> elementsToActuallyRetryNow]
  ELSE LET element == Head(elementsPreviouslyInError)
           rest == Tail(elementsPreviouslyInError)
           retryInfo == MapGet(s.retryData, element, [count |-> 0, nextAttemptAt |-> 0])
       IN IF retryInfo.count > s.settings.retry_max_attempts
             \/ s.now < retryInfo.nextAttemptAt
          THEN retryScan_capOffByOne(s, rest, elementsToActuallyRetryNow)
          ELSE LET count == retryInfo.count + 1
                   s1 == [s EXCEPT !.retryData =
                            MapSet(@, element,
                                   [count |-> count,
                                    nextAttemptAt |-> s.now + backoffDelayForNext(s, count)])]
               IN retryScan_capOffByOne(s1, rest, Append(elementsToActuallyRetryNow, element))

RECURSIVE retryScan_ignoresBackoff(_, _, _)
\* faulty variant: nextAttemptAt is not compared with the clock
retryScan_ignoresBackoff(s, elementsPreviouslyInError, elementsToActuallyRetryNow) ==
  IF elementsPreviouslyInError = <<>>
  THEN [s |-> s, retry |-> elementsToActuallyRetryNow]
  ELSE LET element == Head(elementsPreviouslyInError)
           rest == Tail(elementsPreviouslyInError)
           retryInfo == MapGet(s.retryData, element, RetryInfo(0, 0))
       IN IF retryInfo.count >= s.settings.retry_max_attempts
          THEN retryScan_ignoresBackoff(s, rest, elementsToActuallyRetryNow)
          ELSE LET count == retryInfo.count + 1
                   s1 == [s EXCEPT !.retryData =
                            MapSet(@, element,
                                   RetryInfo(count, s.now + backoffDelayForNext(s, count)))]
               IN retryScan_ignoresBackoff(s1, rest, Append(elementsToActuallyRetryNow, element))

RECURSIVE retryScan(_, _, _)
\* the forEach over elementsPreviouslyInError; returns the state and
\* elementsToActuallyRetryNow
retryScan(s, elementsPreviouslyInError, elementsToActuallyRetryNow) ==
  IF elementsPreviouslyInError = <<>>
  THEN [s |-> s, retry |-> elementsToActuallyRetryNow]
  ELSE LET element == Head(elementsPreviouslyInError)
           rest == Tail(elementsPreviouslyInError)
           retryInfo == MapGet(s.retryData, element, RetryInfo(0, 0))
       IN IF retryInfo.count >= s.settings.retry_max_attempts
          THEN retryScan(s, rest, elementsToActuallyRetryNow)
          ELSE IF s.now < retryInfo.nextAttemptAt
               THEN retryScan(s, rest, elementsToActuallyRetryNow)
               ELSE LET count == retryInfo.count + 1
                        s1 == [s EXCEPT !.retryData =
                                 MapSet(@, element,
                                        RetryInfo(count, s.now + backoffDelayForNext(s, count)))]
                    IN retryScan(s1, rest, Append(elementsToActuallyRetryNow, element))

retryFailedLoads(s) ==
  IF ~IS_BROWSER THEN s
  ELSE IF Len(s.errorElements) = 0 THEN s
  ELSE LET r == retryScan(s, s.errorElements, <<>>)
       IN IF Len(r.retry) > 0 THEN addElements(r.s, Arg(r.retry)) ELSE r.s

(* --------------------------- update and destroy ----------------------- *)
\* document.querySelectorAll(settings.elements_selector)
querySelectorAll(s) == SelectSeq(DocOrder, LAMBDA e : e \in s.lazy)

\* faulty variant: the retry metadata survives the reset
update_keepsRetryData(s, newElements) ==
  LET s1 == IF s.observer /\ IS_BROWSER THEN disconnect(s) ELSE s
      s2 == [s1 EXCEPT !.elementsToObserve = <<>>, !.observedByIO = {},
                       !.errorElements = <<>>]
      elementsToProcess == IF newElements.given THEN newElements
                           ELSE Arg(querySelectorAll(s2))
      s3 == addElements(s2, elementsToProcess)
  IN IF Len(s3.elementsToObserve) > 0 THEN init(s3) ELSE s3

update(s, newElements) ==
  LET s1 == IF s.observer /\ IS_BROWSER THEN disconnect(s) ELSE s
      s2 == [s1 EXCEPT !.elementsToObserve = <<>>, !.observedByIO = {},
                       !.errorElements = <<>>, !.retryData = EmptyMap]
      elementsToProcess == IF newElements.given THEN newElements
                           ELSE Arg(querySelectorAll(s2))
      s3 == addElements(s2, elementsToProcess)
  IN IF Len(s3.elementsToObserve) > 0 THEN init(s3) ELSE s3

_setupOnlineListener(s) == IF ~IS_BROWSER THEN s ELSE [s EXCEPT !.onlineHandler = TRUE]

_removeOnlineListener(s) ==
  IF ~IS_BROWSER \/ ~s.onlineHandler THEN s ELSE [s EXCEPT !.onlineHandler = FALSE]

\* faulty variant: the state classes are taken off every node
destroy_stripsClasses(s) ==
  LET s1 == _removeOnlineListener(s)
      s2 == IF s1.observer /\ IS_BROWSER
            THEN [disconnect(s1) EXCEPT !.observer = FALSE] ELSE s1
      s3 == [s2 EXCEPT !.dom = [n \in DOMAIN s2.dom |->
                                  [s2.dom[n] EXCEPT !.classes =
                                     @ \ {class_loading, class_loaded, class_error}]]]
  IN [s3 EXCEPT !.elementsToObserve = <<>>, !.observedByIO = {},
                !.errorElements = <<>>, !.retryData = EmptyMap]

\* faulty variant: the 'online' listener is left attached
destroy_keepsListener(s) ==
  LET s2 == IF s.observer /\ IS_BROWSER
            THEN [disconnect(s) EXCEPT !.observer = FALSE] ELSE s
  IN [s2 EXCEPT !.elementsToObserve = <<>>, !.observedByIO = {},
                !.errorElements = <<>>, !.retryData = EmptyMap]

\* faulty variant: the observed set survives the teardown
destroy_keepsObserved(s) ==
  LET s1 == _removeOnlineListener(s)
      s2 == IF s1.observer /\ IS_BROWSER
            THEN [disconnect(s1) EXCEPT !.observer = FALSE] ELSE s1
  IN [s2 EXCEPT !.elementsToObserve = <<>>,
                !.errorElements = <<>>, !.retryData = EmptyMap]

destroy(s) ==
  LET s1 == _removeOnlineListener(s)
      s2 == IF s1.observer /\ IS_BROWSER
            THEN [disconnect(s1) EXCEPT !.observer = FALSE] ELSE s1
  IN [s2 EXCEPT !.elementsToObserve = <<>>, !.observedByIO = {},
                !.errorElements = <<>>, !.retryData = EmptyMap]

\* faulty variant: the selector matches are added to an explicit collection
constructor_alsoSelector(s, elements) ==
  LET s1 == IF s.settings.retry_on_online THEN _setupOnlineListener(s) ELSE s
      s2 == IF elements.given THEN addElements(s1, elements) ELSE s1
  IN init(addElements(s2, Arg(querySelectorAll(s2))))

\* faulty variant: the 'online' listener is attached whatever retry_on_online says
constructor_alwaysListens(s, elements) ==
  LET s1 == _setupOnlineListener(s)
      initialElements == IF elements.given THEN elements ELSE Arg(querySelectorAll(s1))
  IN init(addElements(s1, initialElements))

constructor(s, elements) ==
  LET s1 == IF s.settings.retry_on_online THEN _setupOnlineListener(s) ELSE s
      initialElements == IF elements.given THEN elements ELSE Arg(querySelectorAll(s1))
  IN init(addElements(s1, initialElements))

(* ------------------- the browser: frames, timers, media --------------- *)
\* one callback of the animation-frame queue
RunCallback(s, cb) ==
  CASE cb.k = "addClass" ->
         LET s1 == [s EXCEPT !.dom[cb.n].classes = @ \cup {cb.c}]
         IN IF cb.a > 0 THEN [s1 EXCEPT !.attempts[cb.a].loadingApplied = TRUE] ELSE s1
    [] cb.k = "removeClass" -> [s EXCEPT !.dom[cb.n].classes = @ \ {cb.c}]
    [] cb.k = "applyImageAttributes" -> applyImageAttributes(s, cb.a)
    [] cb.k = "applyPictureAttributes" -> applyPictureAttributes(s, cb.a)
    [] cb.k = "applyVideoAttributes" -> applyVideoAttributes(s, cb.a)
    [] cb.k = "applyIframeAttributes" -> applyIframeAttributes(s, cb.a)
    [] cb.k = "loadBgImage" -> loadBgImage(s, cb.a)
    [] cb.k = "performFinishActions" -> performFinishActions(s, cb.a, cb.n, cb.ok, cb.d)

RECURSIVE RunCallbacks(_, _)
RunCallbacks(s, cbs) ==
  IF cbs = <<>> THEN s ELSE RunCallbacks(RunCallback(s, Head(cbs)), Tail(cbs))

\* one animation frame: the callbacks queued before it run in order; those they
\* queue wait for the next frame
runFrame(s) == RunCallbacks([s EXCEPT !.raf = <<>>], s.raf)

\* the listener of attempt a for an event of the given type on its target
listener(s, a, type) ==
  LET tag == s.dom[s.attempts[a].target].tag
      s1 == [s EXCEPT !.attempts[a].signals = 1]
  IN CASE tag = "img" -> completeLoadImage(s1, a, type = "load", MsgEvent)
       [] tag = "video" -> completeLoadVideo(s1, a, type = "canplaythrough", MsgEvent)
       [] OTHER -> onIframeLoad(s1, a)

RECURSIVE dispatchEvent(_, _, _, _)
\* a media event of the given type on node n: every attached listener runs, in
\* the order the listeners were attached
dispatchEvent(s, n, type, a) ==
  IF a > Len(s.attempts) THEN s
  ELSE dispatchEvent(
         IF s.attempts[a].target = n /\ type \in s.attempts[a].listening
         THEN listener(s, a, type) ELSE s,
         n, type, a + 1)

\* the outcomes the media of node n can report
MediaTypesOf(n) ==
  CASE dom[n].tag = "img" -> {"load", "error"}
    [] dom[n].tag = "video" -> {"canplaythrough", "error"}
    [] dom[n].tag = "iframe" -> {"load"}
    [] OTHER -> {}

(* ------------------------------- actions ------------------------------ *)
\* history: the name of the operation, where the behaviour keeps it
Op(name) == IF traced THEN name ELSE "untraced"

Bounded(s) == Len(s.attempts) <= MaxAttempts /\ Len(s.raf) <= MaxRaf

\* the arrays handed to the constructor, addElements and update
ElementArrays ==
  {els \in {<<>>, <<"e1">>, <<"e2">>, <<"e1", "e2">>, <<NonElement, "e1">>} :
     \A i \in 1..Len(els) : els[i] \in lazy \cup {NonElement}}
Args == {NoArg} \cup {Arg(els) : els \in ElementArrays}

\* elements for which an on-screen check under skip_invisible can succeed
SkipCause == IF settings.skip_invisible THEN onScreen ELSE {}

\* the state before the constructor runs, for a page with the given lazy
\* elements, first element of one of the given shapes, under one of the configs
InitOn(page, shapes, configs, io, trace, screens) ==
  /\ settings \in configs
  /\ ioAvailable = io
  /\ v2Supported \in (IF settings.track_visibility_v2 THEN BOOLEAN ELSE {FALSE})
  /\ constructed = FALSE
  /\ observer = FALSE
  /\ ioTargets = {}
  /\ ioStale = {}
  /\ elementsToObserve = <<>>
  /\ observedByIO = {}
  /\ errorElements = <<>>
  /\ retryData = EmptyMap
  /\ onlineHandler = FALSE
  /\ media = {}
  /\ dom \in {MakeDom([e \in Elements |-> IF e = "e1" THEN sh ELSE Shape("img", {src}, FALSE, {}, FALSE, {})]) : sh \in shapes}
  /\ raf = <<>>
  /\ timers = {}
  /\ attempts = <<>>
  /\ now = 0
  /\ onScreen \in screens
  /\ lazy = page
  /\ triggered = {}
  /\ traced = trace
  /\ lastOp = Op("none")

\* the same, for a page none of whose elements is in the viewport
InitWith(page, shapes, configs, io, trace) == InitOn(page, shapes, configs, io, trace, {{}})

\* the shapes explored under the non-default option sets
BasicShapes ==
  { Shape("img", {src}, FALSE, {}, FALSE, {}),
    Shape("img", {}, FALSE, {}, FALSE, {}) }

Init ==
  \/ InitWith({"e1"}, Shapes, {DefaultConfig}, TRUE, FALSE)
  \/ InitWith({"e1"}, BasicShapes, Configs \ {DefaultConfig}, TRUE, FALSE)

\* new LazyLoad(options, elements)
Construct(elements) ==
  /\ ~constructed
  /\ LET s == constructor(State, elements)
     IN Bounded(s) /\ Commit(s)
  /\ constructed' = TRUE
  /\ triggered' = triggered \cup SkipCause
  /\ lastOp' = Op("constructor")

ApiCall(s, op, cause) ==
  /\ constructed
  /\ Bounded(s)
  /\ Commit(s)
  /\ triggered' = triggered \cup cause
  /\ lastOp' = Op(op)
  /\ UNCHANGED constructed

AddElements(elementsToAdd) == ApiCall(addElements(State, elementsToAdd), "addElements", SkipCause)

Update(newElements) == ApiCall(update(State, newElements), "update", SkipCause)

LoadAllNow == ApiCall(loadAllNow(State), "loadAllNow", Members(elementsToObserve))

RetryFailedLoads == ApiCall(retryFailedLoads(State), "retryFailedLoads", SkipCause)

Destroy == ApiCall(destroy(State), "destroy", {})

Event(s, op, cause) ==
  /\ constructed
  /\ Bounded(s)
  /\ Commit(s)
  /\ triggered' = triggered \cup cause
  /\ lastOp' = Op(op)
  /\ UNCHANGED constructed

\* window fires 'online'
Online ==
  /\ onlineHandler
  /\ Event(retryFailedLoads(State), "online", SkipCause)

\* the detector delivers an entry for a target it watches or once watched
DetectorEvent(target, isIntersecting, isVisible) ==
  /\ target \in ioTargets \cup ioStale
  /\ Event(observerCallback(State, Entry(target, isIntersecting, isVisible)), "entry",
           IF (IF settings.track_visibility_v2 /\ v2Supported THEN isVisible ELSE isIntersecting)
              \/ target \in SkipCause
           THEN {target} ELSE {})

\* the browser paints: the requestAnimationFrame callbacks run
AnimationFrame ==
  /\ raf # <<>>
  /\ Event(runFrame(State), "frame", {})

\* a load_delay timer expires
TimerFires(t) ==
  /\ t \in timers
  /\ t.due <= now
  /\ Event(actualLoad([State EXCEPT !.timers = @ \ {t}], t.a), "timer", {})

\* the media of node n reports load, error or canplaythrough
MediaEvent(n, type) ==
  /\ n \in media
  /\ type \in MediaTypesOf(n)
  /\ Event(dispatchEvent([State EXCEPT !.media = @ \ {n}], n, type, 1), "media", {})

\* time passes; an expired timer fires before the clock moves on
Tick ==
  /\ constructed
  /\ now < MaxTime
  /\ \/ timers # {}
     \/ \E n \in DOMAIN retryData : retryData[n].nextAttemptAt > now
  /\ \A t \in timers : t.due > now
  /\ now' = now + 1
  /\ lastOp' = Op("tick")
  /\ UNCHANGED <<settings, ioAvailable, v2Supported, constructed, observer, ioTargets, ioStale,
                 elementsToObserve, observedByIO, errorElements, retryData, onlineHandler,
                 dom, media, raf, timers, attempts, onScreen, lazy, triggered, traced>>

\* the page scrolls: an element enters or leaves the viewport
Scroll(e) ==
  /\ constructed
  /\ settings.skip_invisible
  /\ onScreen' = IF e \in onScreen THEN onScreen \ {e} ELSE onScreen \cup {e}
  /\ lastOp' = Op("scroll")
  /\ UNCHANGED <<settings, ioAvailable, v2Supported, constructed, observer, ioTargets, ioStale,
                 elementsToObserve, observedByIO, errorElements, retryData, onlineHandler,
                 dom, media, raf, timers, attempts, now, lazy, triggered, traced>>

MediaTypes == {"load", "error", "canplaythrough"}

Next ==
  \/ \E x \in Args : Construct(x)
  \/ \E x \in Args : AddElements(x)
  \/ \E x \in Args : Update(x)
  \/ LoadAllNow
  \/ RetryFailedLoads
  \/ Destroy
  \/ Online
  \/ \E e \in lazy, i \in BOOLEAN, v \in BOOLEAN : DetectorEvent(e, i, v)
  \/ AnimationFrame
  \/ \E t \in timers : TimerFires(t)
  \/ \E n \in Nodes, type \in MediaTypes : MediaEvent(n, type)
  \/ Tick
  \/ \E e \in lazy : Scroll(e)

Spec == Init /\ [][Next]_vars

\* the same machine with the operation history kept, for one image
InitTraced ==
  InitWith({"e1"}, {Shape("img", {src}, FALSE, {}, FALSE, {})},
           {DefaultConfig, Settings(LoadDelay, TRUE, TRUE, FALSE)}, TRUE, TRUE)
SpecTraced == InitTraced /\ [][Next]_vars

\* one image under the default options, with the operation history kept: the
\* machine on which the retry bookkeeping is followed
InitRetry ==
  InitWith({"e1"}, {Shape("img", {src}, FALSE, {}, FALSE, {})}, {DefaultConfig}, TRUE, TRUE)

NextRetry ==
  \/ \E x \in Args : Construct(x)
  \/ \E x \in Args : AddElements(x)
  \/ \E x \in Args : Update(x)
  \/ LoadAllNow
  \/ RetryFailedLoads
  \/ Destroy
  \/ Online
  \/ \E e \in lazy, i \in BOOLEAN, v \in BOOLEAN : DetectorEvent(e, i, v)
  \/ AnimationFrame
  \/ \E n \in Nodes, type \in MediaTypes : MediaEvent(n, type)
  \/ Tick

SpecRetry == InitRetry /\ [][NextRetry]_vars

\* one image whose load can fail, under retry_on_online set and unset: the
\* machine on which the triggers of a retry pass are followed
InitOnline ==
  InitWith({"e1"}, {Shape("img", {src}, FALSE, {}, FALSE, {})},
           {DefaultConfig, Settings(0, FALSE, FALSE, FALSE)}, TRUE, TRUE)

NextOnline ==
  \/ \E x \in Args : Construct(x)
  \/ \E x \in Args : AddElements(x)
  \/ LoadAllNow
  \/ RetryFailedLoads
  \/ Destroy
  \/ Online
  \/ \E e \in lazy, i \in BOOLEAN : DetectorEvent(e, i, i)
  \/ AnimationFrame
  \/ \E n \in Nodes, type \in MediaTypes : MediaEvent(n, type)
  \/ Tick

SpecOnline == InitOnline /\ [][NextOnline]_vars

\* two images, of which the selector matches the first or none, handed to the
\* controller singly and together: the machine on which the registry is followed
InitPair ==
  \/ InitWith({}, {Shape("img", {src}, FALSE, {}, FALSE, {})}, {DefaultConfig}, TRUE, FALSE)
  \/ InitWith({"e1"}, {Shape("img", {src}, FALSE, {}, FALSE, {})}, {DefaultConfig}, TRUE, FALSE)

PairArgs == {NoArg, Arg(<<"e2">>), Arg(<<"e1", "e2">>), Arg(<<NonElement, "e1">>)}

NextPair ==
  \/ \E x \in PairArgs : Construct(x)
  \/ \E x \in PairArgs : AddElements(x)
  \/ \E x \in PairArgs : Update(x)
  \/ LoadAllNow
  \/ RetryFailedLoads
  \/ \E e \in Elements, i \in BOOLEAN : DetectorEvent(e, i, i)
  \/ AnimationFrame
  \/ \E n \in Nodes, type \in MediaTypes : MediaEvent(n, type)

SpecPair == InitPair /\ [][NextPair]_vars

\* two images under skip_invisible, any of them in the viewport when the
\* controller is built, scrolled in and out afterwards
InitSkip ==
  InitOn({"e1", "e2"}, {Shape("img", {src}, FALSE, {}, FALSE, {})},
         {Settings(0, TRUE, FALSE, FALSE)}, TRUE, FALSE, SUBSET Elements)

NextSkip ==
  \/ \E x \in PairArgs : Construct(x)
  \/ \E x \in PairArgs : AddElements(x)
  \/ \E e \in Elements, i \in BOOLEAN : DetectorEvent(e, i, i)
  \/ AnimationFrame
  \/ \E n \in Nodes, type \in MediaTypes : MediaEvent(n, type)
  \/ \E e \in Elements : Scroll(e)

SpecSkip == InitSkip /\ [][NextSkip]_vars

\* a page whose script only ever adds elements
NextAdd ==
  \/ \E x \in Args : Construct(x)
  \/ \E x \in Args : AddElements(x)
  \/ \E e \in lazy, i \in BOOLEAN, v \in BOOLEAN : DetectorEvent(e, i, v)
  \/ AnimationFrame
  \/ \E t \in timers : TimerFires(t)
  \/ \E n \in Nodes, type \in MediaTypes : MediaEvent(n, type)
  \/ Tick
  \/ \E e \in lazy : Scroll(e)

SpecAdd == Init /\ [][NextAdd]_vars

\* a browser without IntersectionObserver
InitFallback ==
  InitWith({"e1"}, BasicShapes, {DefaultConfig, Settings(LoadDelay, FALSE, TRUE, FALSE)},
           FALSE, FALSE)

NextFallback ==
  \/ \E x \in Args : Construct(x)
  \/ \E x \in Args : AddElements(x)
  \/ \E x \in Args : Update(x)
  \/ LoadAllNow
  \/ RetryFailedLoads
  \/ Destroy
  \/ Online
  \/ AnimationFrame
  \/ \E t \in timers : TimerFires(t)
  \/ \E n \in Nodes, type \in MediaTypes : MediaEvent(n, type)
  \/ Tick

SpecFallback == InitFallback /\ [][NextFallback]_vars

(* ------------------------------ properties ---------------------------- *)
\* the nodes an attempt on element e may touch
Family(e) == {e, ImgChild(e), SourceChild(e)}
AttemptsOf(e) == {a \in 1..Len(attempts) : attempts[a].el = e}
Count(log, name) == Len(SelectSeq(log, LAMBDA x : x = name))
Queued(k, n, c) == \E i \in 1..Len(raf) : raf[i].k = k /\ raf[i].n = n /\ raf[i].c = c
DataAttributes == {src, srcset, sizes, poster, data_media}

\* C1: with the visibility detector available, an element for which no cause of
\* reveal has occurred (no entry judged effectively intersecting, no successful
\* on-screen check under skip_invisible, no loadAllNow) has no load attempt, no
\* loading class applied or queued, and no real source or background image set
\* on it or on its children.
C1_NoLoadWithoutCause ==
  ioAvailable =>
    \A e \in Elements \ triggered :
      /\ AttemptsOf(e) = {}
      /\ class_loading \notin dom[e].classes
      /\ ~Queued("addClass", e, class_loading)
      /\ \A n \in Family(e) : dom[n].props = NoProps

\* a load has started on an element after a cause of reveal, and other entries
\* were delivered without one
C1_Witness ==
  /\ ioAvailable
  /\ \E e \in triggered :
       /\ AttemptsOf(e) # {}
       /\ class_loading \in dom[e].classes
       /\ \E n \in Family(e) : dom[n].props # NoProps

\* C2: however addElements is called again for an element, the element has at
\* most one record in the queue and at most one load attempt, so callback_enter
\* and callback_finish run at most once for it.
C2_IdempotentAdd ==
  \A e \in Elements :
    /\ Cardinality({i \in 1..Len(elementsToObserve) : elementsToObserve[i] = e}) <= 1
    /\ Cardinality(AttemptsOf(e)) <= 1

\* C3: every attempt has run callback_finish at most once and at most one of
\* callback_load / callback_error, once; an attempt whose outcome is finalized
\* has run callback_finish exactly once and exactly one of the two.
C3_ExactlyOnceTerminal ==
  \A a \in 1..Len(attempts) :
    LET log == attempts[a].log
        outcomes == Count(log, "load") + Count(log, "error")
    IN /\ Count(log, "finish") <= 1
       /\ outcomes <= 1
       /\ Count(log, "finish") = outcomes
       /\ attempts[a].stage = "finalized" => outcomes = 1

\* two attempts whose listeners sat on the same node have both been finalized
\* by media signals
C3_Witness ==
  \E a, b \in 1..Len(attempts) :
    /\ a # b
    /\ attempts[a].target = attempts[b].target
    /\ attempts[a].stage = "finalized" /\ attempts[a].signals = 1
    /\ attempts[b].stage = "finalized" /\ attempts[b].signals = 1

\* nothing is scheduled: no frame callback, no timer, no media load under way
Quiescent == raf = <<>> /\ timers = {} /\ media = {}

\* C4: without the visibility detector, once nothing is scheduled any more the
\* queue is empty and every attempt has reached its outcome: no admitted
\* element is left pending.
C4_FallbackCompleteness ==
  (~ioAvailable /\ constructed /\ Quiescent) =>
    /\ elementsToObserve = <<>>
    /\ \A a \in 1..Len(attempts) : attempts[a].stage = "finalized"

\* the retry metadata of node n, as retryFailedLoads reads it
RetryDataOf(n) == MapGet(retryData, n, RetryInfo(0, 0))
\* a retry pass started now would qualify node n
Eligible(n) ==
  /\ Has(errorElements, n)
  /\ RetryDataOf(n).count < settings.retry_max_attempts
  /\ now >= RetryDataOf(n).nextAttemptAt
RetryPass == RetryFailedLoads \/ Online

\* C5: every element that a retry pass (retryFailedLoads() or the 'online'
\* handler) finds eligible is in the queue, or already revealed again, when the
\* pass returns.
C5_RetryResubmits ==
  [][RetryPass =>
       \A n \in Nodes :
         Eligible(n) => Has(elementsToObserve', n) \/ Len(attempts') > Len(attempts)]_vars

\* C6: whenever the retry metadata of an element changes, its count has gone up
\* by one to k and its nextAttemptAt is now + retry_backoff_base_ms * 2^(k-1);
\* a pass over an errored element that was never retried qualifies it whatever
\* the time.
C6_Backoff ==
  [][\A n \in Nodes :
       /\ (n \in DOMAIN retryData' /\ retryData'[n] # RetryDataOf(n)) =>
            LET k == retryData'[n].count
            IN /\ k = RetryDataOf(n).count + 1
               /\ retryData'[n].nextAttemptAt
                    = now + settings.retry_backoff_base_ms * (2 ^ (k - 1))
       /\ (RetryPass /\ Has(errorElements, n) /\ n \notin DOMAIN retryData) =>
            n \in DOMAIN retryData' /\ retryData'[n].count = 1]_vars

\* an element has just been qualified a second time: its wait has doubled
C6_Witness ==
  \E n \in DOMAIN retryData :
    /\ retryData[n].count = 2
    /\ retryData[n].nextAttemptAt = now + 2 * settings.retry_backoff_base_ms
    /\ now > 0

\* C7: the retry count of an element never exceeds retry_max_attempts, and a
\* retry pass over an errored element whose count equals the cap leaves its
\* retry metadata, the attempts, the element's classes and the queued class
\* changes as they were and keeps the element in the errored set.
C7_RetryCap ==
  /\ [](\A n \in DOMAIN retryData : retryData[n].count <= settings.retry_max_attempts)
  /\ [][RetryPass =>
          \A n \in DOMAIN retryData :
            (retryData[n].count = settings.retry_max_attempts /\ Has(errorElements, n)) =>
              /\ n \in DOMAIN retryData' /\ retryData'[n] = retryData[n]
              /\ attempts' = attempts
              /\ Has(errorElements', n)
              /\ dom'[n] = dom[n]
              /\ raf' = raf]_vars

\* a retry pass has just run over an errored element that carries the error
\* class and was already at the cap before the pass
C7_Witness ==
  /\ lastOp \in {"retryFailedLoads", "online"}
  /\ \E n \in DOMAIN retryData :
       /\ retryData[n].count = settings.retry_max_attempts
       /\ retryData[n].nextAttemptAt
            # now + settings.retry_backoff_base_ms * (2 ^ (retryData[n].count - 1))
       /\ Has(errorElements, n)
       /\ class_error \in dom[n].classes

\* attempt a is the latest attempt on its element
Latest(a) == \A b \in AttemptsOf(attempts[a].el) : b <= a

\* C8: once an attempt on an element has reached its outcome, the element
\* carries none of the data attributes (src, srcset, sizes, poster names of the
\* settings, data-media).
C8_AttributeCleanup ==
  \A a \in 1..Len(attempts) :
    attempts[a].stage = "finalized" => dom[attempts[a].el].attrs \cap DataAttributes = {}

\* C9: when the latest attempt on an element got its outcome from a media
\* signal, the frame callbacks have all run and the element has not been queued
\* again, then after load the element carries class_loaded, not class_loading,
\* and its real src holds the data-src value read at reveal; after error it
\* carries class_error and neither class_loading nor class_loaded.
C9_TerminalClasses ==
  \A a \in 1..Len(attempts) :
    LET e == attempts[a].el
    IN (/\ attempts[a].stage = "finalized"
        /\ attempts[a].signals = 1
        /\ Latest(a)
        /\ raf = <<>>
        /\ ~Has(elementsToObserve, e)) =>
         IF Count(attempts[a].log, "load") = 1
         THEN /\ class_loaded \in dom[e].classes
              /\ class_loading \notin dom[e].classes
              /\ attempts[a].srcV # Null => dom[e].props["src"] = attempts[a].srcV
         ELSE /\ class_error \in dom[e].classes
              /\ class_loading \notin dom[e].classes
              /\ class_loaded \notin dom[e].classes

\* attempt a is a started attempt on an img that had neither data-src nor
\* data-srcset when it was revealed and has no real source either
NoSourceImg(a) ==
  LET e == attempts[a].el
  IN /\ dom[e].tag = "img"
     /\ attempts[a].stage # "revealed"
     /\ attempts[a].srcV = Null /\ attempts[a].srcsetV = Null
     /\ dom[e].props["src"] = Null /\ dom[e].props["srcset"] = Null

TimersOf(a) == {t \in timers : t.a = a}

\* C11: under load_delay = D > 0 a reveal runs callback_enter and only sets a
\* timer due D after the reveal; until the timer fires the attempt has started
\* nothing (no loading class applied or queued, no real source, when it is the
\* element's only attempt), the clock never passes the due time with the timer
\* still pending, and the load starts exactly in the step in which the due
\* timer fires.
C11_LoadDelay ==
  /\ [](settings.load_delay > 0 =>
          \A a \in 1..Len(attempts) :
            /\ attempts[a].stage = "revealed" <=> TimersOf(a) # {}
            /\ attempts[a].stage = "revealed" =>
                 /\ attempts[a].log = <<"enter">>
                 /\ \A t \in TimersOf(a) : now <= t.due /\ t.due <= now + settings.load_delay
                 /\ AttemptsOf(attempts[a].el) = {a} =>
                      /\ class_loading \notin dom[attempts[a].el].classes
                      /\ ~Queued("addClass", attempts[a].el, class_loading)
                      /\ \A n \in Family(attempts[a].el) : dom[n].props = NoProps)
  /\ [][settings.load_delay > 0 =>
          /\ \A a \in 1..Len(attempts') :
               a > Len(attempts) =>
                 /\ attempts'[a].stage = "revealed"
                 /\ attempts'[a].log = <<"enter">>
                 /\ [a |-> a, due |-> now + settings.load_delay] \in timers'
          /\ \A a \in 1..Len(attempts) :
               (attempts[a].stage = "revealed" /\ attempts'[a].stage # "revealed") =>
                 /\ \E t \in TimersOf(a) : t.due = now /\ t \notin timers'
                 /\ attempts'[a].stage = "started"
                 /\ Queued("addClass", attempts[a].el, class_loading)']_vars

\* under load_delay an attempt has started after its delay elapsed: the
\* element carries the loading class
C11_Witness ==
  /\ settings.load_delay > 0
  /\ now >= settings.load_delay
  /\ \E a \in 1..Len(attempts) :
       /\ attempts[a].stage = "started"
       /\ class_loading \in dom[attempts[a].el].classes

\* C12: the callbacks of an attempt run in the order enter, then load or
\* error, then finish, and the loading class requested by the attempt has been
\* applied before its load or error callback runs.
C12_CallbackOrder ==
  \A a \in 1..Len(attempts) :
    /\ attempts[a].log \in {<<"enter">>, <<"enter", "load", "finish">>,
                            <<"enter", "error", "finish">>}
    /\ Len(attempts[a].log) > 1 => attempts[a].loadingApplied
    /\ attempts[a].loadingApplied => attempts[a].stage # "revealed"

\* one attempt has run enter, error, finish and another enter, load, finish,
\* each after its loading class was applied
C12_Witness ==
  \E a, b \in 1..Len(attempts) :
    /\ attempts[a].log = <<"enter", "error", "finish">> /\ attempts[a].loadingApplied
    /\ attempts[b].log = <<"enter", "load", "finish">> /\ attempts[b].loadingApplied

\* C13: in the step in which callback_finish runs for an attempt, the element
\* it is called with carries class_loaded after a load, class_error after an
\* error, and does not carry class_loading.
C13_FinishAfterClasses ==
  [][\A a \in 1..Len(attempts) :
       (Count(attempts[a].log, "finish") = 0 /\ Count(attempts'[a].log, "finish") = 1) =>
         LET element == attempts'[a].finalizedOn
         IN /\ class_loading \notin dom'[element].classes
            /\ IF Count(attempts'[a].log, "load") = 1
               THEN class_loaded \in dom'[element].classes
               ELSE class_error \in dom'[element].classes]_vars

\* the controller holds nothing: no detector, no registered target, empty
\* sets, no retry metadata, no 'online' listener
TornDown ==
  /\ ~observer
  /\ ioTargets = {}
  /\ elementsToObserve = <<>>
  /\ observedByIO = {}
  /\ errorElements = <<>>
  /\ retryData = EmptyMap
  /\ ~onlineHandler

\* C14: whatever the state, when destroy() returns the detector is
\* disconnected and dropped, the pending, observed and errored sets and the
\* retry metadata are empty and the 'online' listener is detached, so that no
\* 'online' event reaches the controller.
C14_Destroy ==
  /\ [][Destroy => TornDown']_vars
  /\ [](~onlineHandler => ~ENABLED Online)

\* destroy() has run on a controller that had a detector with registered
\* targets, an 'online' listener and load attempts
C14_Witness ==
  /\ constructed /\ ioAvailable /\ settings.retry_on_online
  /\ TornDown
  /\ ioStale # {}
  /\ attempts # <<>>

\* destroy() has been called: under retry_on_online the constructor attaches
\* the 'online' listener and only destroy() detaches it
Destroyed == constructed /\ settings.retry_on_online /\ ~onlineHandler

\* C15: on a destroyed controller that holds no detector, no addElements(),
\* loadAllNow() or retryFailedLoads() call, 'online' event or detector event
\* creates a detector, registers a target or starts a load attempt.
C15_TeardownPermanent ==
  [][(/\ Destroyed /\ ~observer
      /\ \/ \E x \in Args : AddElements(x)
         \/ LoadAllNow
         \/ RetryPass
         \/ \E e \in lazy, i \in BOOLEAN, v \in BOOLEAN : DetectorEvent(e, i, v))
     => /\ ~observer'
        /\ ioTargets' = {}
        /\ Len(attempts') = Len(attempts)]_vars

\* C16: when loadAllNow() returns, the pending and observed sets are empty and
\* no target is registered with the detector, which is kept; every element
\* that was pending has got exactly one new load attempt, in queue order, whose
\* enter callback has run once, and the earlier attempts are as they were.
C16_LoadAllNow ==
  [][LoadAllNow =>
       /\ elementsToObserve' = <<>>
       /\ observedByIO' = {}
       /\ ioTargets' = {}
       /\ observer' = observer
       /\ Len(attempts') = Len(attempts) + Len(elementsToObserve)
       /\ \A a \in 1..Len(attempts) : attempts'[a] = attempts[a]
       /\ \A i \in 1..Len(elementsToObserve) :
            /\ attempts'[Len(attempts) + i].el = elementsToObserve[i]
            /\ Count(attempts'[Len(attempts) + i].log, "enter") = 1]_vars

\* both images were registered with the detector and each has one attempt that
\* entered, while nothing is pending, observed or registered and the detector
\* is kept
C16_Witness ==
  /\ constructed /\ observer
  /\ ioStale = {"e1", "e2"}
  /\ elementsToObserve = <<>> /\ observedByIO = {} /\ ioTargets = {}
  /\ Len(attempts) = 2
  /\ attempts[1].el = "e1" /\ attempts[2].el = "e2"
  /\ attempts[1].log = <<"enter">> /\ attempts[2].log = <<"enter">>
  /\ triggered = {"e1", "e2"}

\* the admission test of addElements on a controller whose sets are empty: a
\* real element that does not carry class_loaded
Admissible(x) == isHTMLElement(x) /\ class_loaded \notin dom[x].classes

\* C17: when update(newElements) returns, the errored set and the retry
\* metadata are empty, and the pending set, the observed set and the targets
\* of the detector are exactly the admissible elements among those supplied
\* (or, when none are supplied, among those matching the selector), so that
\* an element tracked before and absent from them is neither tracked nor
\* watched; update() itself starts no load attempt.
C17_Update ==
  [][\A x \in PairArgs :
       Update(x) =>
         LET elementsToProcess == IF x.given THEN x.els ELSE querySelectorAll(State)
             admitted == SelectSeq(elementsToProcess, Admissible)
         IN /\ errorElements' = <<>>
            /\ retryData' = EmptyMap
            /\ elementsToObserve' = admitted
            /\ observedByIO' = Members(admitted)
            /\ ioTargets' = Members(admitted)
            /\ admitted # <<>> => observer'
            /\ Len(attempts') = Len(attempts)]_vars

\* the first image failed and was tracked as errored; after update([e2]) the
\* errored set and the retry metadata are empty and only the second image is
\* tracked and watched
C17_Witness ==
  /\ constructed /\ observer
  /\ Len(attempts) = 1
  /\ attempts[1].el = "e1"
  /\ attempts[1].log = <<"enter", "error", "finish">>
  /\ errorElements = <<>> /\ retryData = EmptyMap
  /\ elementsToObserve = <<"e2">> /\ observedByIO = {"e2"} /\ ioTargets = {"e2"}

\* a load attempt of e has been finalized with callback_load
Loaded(e) ==
  \E a \in AttemptsOf(e) :
    attempts[a].stage = "finalized" /\ Count(attempts[a].log, "load") = 1

\* C18: an addElements() or update() call made while an element has a load
\* attempt finalized as successful, and is neither pending nor observed,
\* leaves it out of the pending and observed sets and starts no attempt for it.
C18_LoadedNotRequeued ==
  [][\A x \in Args :
       (AddElements(x) \/ Update(x)) =>
         \A e \in Elements :
           (Loaded(e) /\ ~Has(elementsToObserve, e) /\ e \notin observedByIO) =>
             /\ ~Has(elementsToObserve', e)
             /\ e \notin observedByIO'
             /\ \A a \in 1..Len(attempts') : attempts'[a].el = e => a <= Len(attempts)]_vars

\* e has been revealed and its latest attempt has no outcome yet
InFlight(e) ==
  \E a \in AttemptsOf(e) : Latest(a) /\ attempts[a].stage # "finalized"

\* C19: an addElements() call made while an element is in flight, and is
\* neither pending nor observed, leaves it out of the pending and observed
\* sets, does not register it with the detector and starts no attempt for it.
C19_InFlightSkipped ==
  [][\A x \in Args :
       AddElements(x) =>
         \A e \in Elements :
           (InFlight(e) /\ ~Has(elementsToObserve, e) /\ e \notin observedByIO) =>
             /\ ~Has(elementsToObserve', e)
             /\ e \notin observedByIO'
             /\ e \notin ioTargets'
             /\ \A a \in 1..Len(attempts') : attempts'[a].el = e => a <= Len(attempts)]_vars

\* C20: when the constructor returns, the pending set, the observed set and
\* the targets of the detector are exactly the admissible elements of the
\* collection it was given, whatever the selector matches, or, when it was
\* given none, exactly the elements of the document that match the selector,
\* none if nothing matches; no load attempt has started.
C20_Discovery ==
  [][\A x \in PairArgs :
       Construct(x) =>
         LET initialElements == IF x.given THEN x.els ELSE querySelectorAll(State)
             admitted == SelectSeq(initialElements, Admissible)
         IN /\ elementsToObserve' = admitted
            /\ observedByIO' = Members(admitted)
            /\ ioTargets' = Members(admitted)
            /\ attempts' = <<>>]_vars

\* the selector matches the first image only, and the second image is the
\* only element the controller tracks or has ever registered: the constructor
\* was given the collection [e2]
C20_Witness ==
  /\ constructed
  /\ lazy = {"e1"}
  /\ elementsToObserve = <<"e2">> /\ observedByIO = {"e2"}
  /\ ioTargets = {"e2"} /\ ioStale = {"e2"}
  /\ attempts = <<>>

\* x passes the admission test of addElements in the current state
Fresh(x) ==
  /\ isHTMLElement(x)
  /\ ~Has(elementsToObserve, x) /\ x \notin observedByIO
  /\ class_loaded \notin dom[x].classes
  /\ ~Has(errorElements, x)

\* the attempts of e started by the step
StartedFor(e) == {a \in (Len(attempts) + 1)..Len(attempts') : attempts'[a].el = e}

\* C21: under skip_invisible, when the constructor or addElements() returns,
\* every element it admitted that is on screen has exactly one new load
\* attempt, is neither pending nor observed and has not been registered with
\* the detector; every element it admitted that is off screen is pending,
\* observed and registered with the detector, and has no new attempt.
C21_SkipInvisible ==
  [][\A x \in PairArgs :
       (settings.skip_invisible /\ (Construct(x) \/ AddElements(x))) =>
         LET els == IF x.given THEN x.els
                    ELSE IF constructed THEN <<>> ELSE querySelectorAll(State)
         IN \A e \in {n \in Members(els) : Fresh(n)} :
              IF e \in onScreen
              THEN /\ Cardinality(StartedFor(e)) = 1
                   /\ ~Has(elementsToObserve', e)
                   /\ e \notin observedByIO'
                   /\ e \notin ioTargets'
                   /\ e \notin ioStale' \ ioStale
              ELSE /\ StartedFor(e) = {}
                   /\ Has(elementsToObserve', e)
                   /\ e \in observedByIO'
                   /\ e \in ioTargets']_vars

\* the first image was on screen and was revealed without ever being
\* registered with the detector; the second, off screen, is pending, observed
\* and registered
C21_Witness ==
  /\ constructed /\ settings.skip_invisible
  /\ onScreen = {"e1"}
  /\ Len(attempts) = 1 /\ attempts[1].el = "e1" /\ attempts[1].log = <<"enter">>
  /\ ioStale = {"e2"} /\ ioTargets = {"e2"}
  /\ elementsToObserve = <<"e2">> /\ observedByIO = {"e2"}

\* the values of an argument that are elements
GenuineOf(x) == IF x.given THEN Arg(SelectSeq(x.els, isHTMLElement)) ELSE x

\* C22: the constructor and addElements(), given a missing value, an empty
\* array or an array holding values that are not elements, do what they do
\* for the elements of the array alone; and when an addElements() argument
\* holds nothing that passes the admission test, the pending, observed and
\* errored sets, the targets of the detector, the attempts and the frame
\* queue are left as they were.
C22_TolerantInput ==
  [][\A x \in Args :
       /\ Construct(x) => constructor(State, x) = constructor(State, GenuineOf(x))
       /\ AddElements(x) =>
            /\ addElements(State, x) = addElements(State, GenuineOf(x))
            /\ (\A i \in 1..Len(x.els) : ~Fresh(x.els[i])) =>
                 UNCHANGED <<elementsToObserve, observedByIO, errorElements,
                             ioTargets, attempts, raf, dom>>]_vars

\* addElements() has just returned on a controller whose only element is
\* tracked as errored: whatever it was given held nothing admissible
C22_Witness ==
  /\ lastOp = "addElements"
  /\ errorElements = <<"e1">>
  /\ elementsToObserve = <<>> /\ observedByIO = {} /\ ioTargets = {}

\* e is in the pending set or in the observed set
Tracked(e) == Has(elementsToObserve, e) \/ e \in observedByIO

\* C23: no element is at once pending or observed and in flight, pending or
\* observed and in the errored set, or in flight and in the errored set.
C23_ExclusiveMembership ==
  \A e \in Elements :
    /\ ~(Tracked(e) /\ InFlight(e))
    /\ ~(Tracked(e) /\ Has(errorElements, e))
    /\ ~(InFlight(e) /\ Has(errorElements, e))

\* C24: in every state the observed set is the set of targets registered with
\* the live detector, and is empty when the controller holds no detector; an
\* element that leaves the observed set in a step is not registered after it.
C24_NoDanglingWatch ==
  /\ [](observedByIO = ioTargets /\ (~observer => ioTargets = {}))
  /\ [][\A e \in observedByIO \ observedByIO' : e \notin ioTargets']_vars

\* the image was registered with the detector and then revealed: the detector
\* is alive, and it watches nothing while nothing is recorded as observed
C24_Witness ==
  /\ constructed /\ observer
  /\ ioStale = {"e1"}
  /\ attempts # <<>>
  /\ observedByIO = {} /\ ioTargets = {}

\* C25: on a destroyed controller that holds no detector, whatever timer,
\* media signal or frame arrives, the pending, observed and errored sets and
\* the retry metadata stay empty.
C25_LateOutcomeIgnored == (Destroyed /\ ~observer) => TornDown

\* C26: destroy() leaves every node as it was: its classes, its attributes,
\* its properties and its style, and it queues no change to them.
C26_DestroyKeepsElements == [][Destroy => (dom' = dom /\ raf' = raf)]_vars

\* destroy() has just returned and the image still carries class_loaded, the
\* source it was given and no data-src
C26_Witness ==
  /\ lastOp = "destroy"
  /\ class_loaded \in dom["e1"].classes
  /\ dom["e1"].props.src # <<>>
  /\ src \notin dom["e1"].attrs

\* C27: a detector entry whose target is neither pending nor observed leaves
\* the target unregistered and changes nothing else: no attempt is started,
\* no callback runs, nothing is queued, and the sets, the retry metadata, the
\* timers and the document are as before.
C27_StaleEntry ==
  [][\A e \in Elements, i \in BOOLEAN, v \in BOOLEAN :
       (DetectorEvent(e, i, v) /\ ~Tracked(e)) =>
         /\ e \notin ioTargets'
         /\ UNCHANGED <<attempts, raf, timers, dom, media, elementsToObserve,
                        observedByIO, errorElements, retryData>>]_vars

\* an entry has just been delivered on a destroyed controller for the image it
\* once watched, and no attempt exists
C27_Witness ==
  /\ lastOp = "entry"
  /\ Destroyed /\ ~observer
  /\ ioStale = {"e1"} /\ ioTargets = {}
  /\ elementsToObserve = <<>> /\ observedByIO = {}
  /\ attempts = <<>>

\* C28: a detector entry for a pending or observed target reveals it exactly
\* when the entry is effectively intersecting, or skip_invisible is set and
\* the target is on screen; the entry is effectively intersecting when its
\* visibility confirmation is true if strict visibility is active, and when
\* its intersecting flag is true otherwise. A revealed target gets one new
\* attempt and is no longer pending, observed or registered; a target not
\* revealed keeps its place and nothing starts.
C28_EffectiveIntersection ==
  [][\A e \in Elements, i \in BOOLEAN, v \in BOOLEAN :
       (DetectorEvent(e, i, v) /\ Tracked(e)) =>
         LET strict == settings.track_visibility_v2 /\ v2Supported
             effective == IF strict THEN v ELSE i
         IN IF effective \/ (settings.skip_invisible /\ e \in onScreen)
            THEN /\ Len(attempts') = Len(attempts) + 1
                 /\ attempts'[Len(attempts')].el = e
                 /\ ~Has(elementsToObserve', e)
                 /\ e \notin observedByIO'
                 /\ e \notin ioTargets'
            ELSE UNCHANGED <<attempts, elementsToObserve, observedByIO, ioTargets,
                             raf, timers, dom>>]_vars

\* strict visibility is active and the element was revealed by an entry
C28_Witness ==
  /\ settings.track_visibility_v2 /\ v2Supported
  /\ constructed /\ observer
  /\ "e1" \in triggered
  /\ Len(attempts) = 1 /\ attempts[1].el = "e1"
  /\ ~Tracked("e1") /\ ioTargets = {}

MediaTags == {"img", "picture", "video", "iframe"}

\* attempt a has started on a picture without img child, on a video whose
\* source child has no source data, on an iframe without source data or on
\* another element without source data
NothingToLoad(a) ==
  LET e == attempts[a].el
      tag == dom[e].tag
  IN /\ attempts[a].stage # "revealed"
     /\ \/ tag = "picture" /\ dom[ImgChild(e)] = Absent
        \/ /\ tag = "video"
           /\ src \notin dom[SourceChild(e)].attrs
           /\ dom[SourceChild(e)].props["src"] = Null
        \/ tag = "iframe" /\ attempts[a].srcV = Null /\ dom[e].props["src"] = Null
        \/ /\ tag \notin MediaTags
           /\ attempts[a].srcV = Null /\ dom[e].props["backgroundImage"] = Null

\* attempt a has started on an element that is neither img, picture, video
\* nor iframe and has read source data from it
BackgroundSource(a) ==
  /\ dom[attempts[a].el].tag \notin MediaTags
  /\ attempts[a].stage # "revealed"
  /\ attempts[a].srcV # Null

FinalizedOf(e) == {a \in AttemptsOf(e) : attempts[a].stage = "finalized"}
LastFinalized(e) == CHOOSE a \in FinalizedOf(e) : \A b \in FinalizedOf(e) : b <= a

\* the most recent finalized attempt of e failed and no later attempt of e
\* has started its load
FailedLast(e) ==
  /\ FinalizedOf(e) # {}
  /\ Count(attempts[LastFinalized(e)].log, "error") = 1
  /\ \A b \in AttemptsOf(e) : b > LastFinalized(e) => attempts[b].stage = "revealed"

\* C30: the step that finalizes an attempt as a success leaves its element
\* out of the errored set and without retry metadata; the step that finalizes
\* it as a failure leaves the element in the errored set with the retry
\* metadata it had; and in every state an element is in the errored set
\* exactly when its most recent finalized attempt failed and no newer attempt
\* of it has started.
C30_OutcomeBookkeeping ==
  /\ [][\A a \in 1..Len(attempts) :
          (attempts[a].stage # "finalized" /\ attempts'[a].stage = "finalized") =>
            LET element == attempts'[a].finalizedOn
            IN IF Count(attempts'[a].log, "load") = 1
               THEN ~Has(errorElements', element) /\ element \notin DOMAIN retryData'
               ELSE /\ Has(errorElements', element)
                    /\ MapGet(retryData', element, RetryInfo(0, 0)) = RetryDataOf(element)]_vars
  /\ [](\A e \in Elements : Has(errorElements, e) <=> FailedLast(e))

\* C31: a retry pass run before the nextAttemptAt of an errored element
\* leaves its retry metadata as they were, keeps it in the errored set,
\* neither puts it into nor takes it out of the pending and observed sets,
\* starts no attempt and changes neither the element nor the frame queue; a pass run at or after nextAttemptAt, below
\* the cap, qualifies it: its count goes up by one.
C31_BackoffWindow ==
  [][RetryPass =>
       \A n \in Nodes :
         /\ (Has(errorElements, n) /\ now < RetryDataOf(n).nextAttemptAt) =>
              /\ n \in DOMAIN retryData' /\ retryData'[n] = retryData[n]
              /\ Has(errorElements', n)
              /\ Has(elementsToObserve', n) <=> Has(elementsToObserve, n)
              /\ (n \in observedByIO') <=> (n \in observedByIO)
              /\ attempts' = attempts
              /\ dom'[n] = dom[n]
              /\ raf' = raf
         /\ Eligible(n) =>
              /\ n \in DOMAIN retryData'
              /\ retryData'[n].count = RetryDataOf(n).count + 1]_vars

\* a retry pass has just run while the errored element, retried once, was
\* still waiting for its nextAttemptAt
C31_Witness ==
  /\ lastOp \in {"retryFailedLoads", "online"}
  /\ \E n \in DOMAIN retryData :
       /\ Has(errorElements, n)
       /\ retryData[n].count = 1
       /\ retryData[n].count < settings.retry_max_attempts
       /\ now < retryData[n].nextAttemptAt

\* the frame callbacks queued by the step
NewCallbacks == {raf'[j] : j \in (Len(raf) + 1)..Len(raf')}

\* C32: addElements() leaves an element it is given that is in the errored
\* set where it was: its memberships and the element are unchanged and no
\* change to it is queued. An element it is given that carries class_error
\* and passes the admission test is admitted like any other, to the queue or
\* straight to a load attempt, and the removal of class_error from it is
\* requested in the same step.
C32_ErrorClassInAdd ==
  [][\A x \in Args :
       AddElements(x) =>
         \A i \in 1..Len(x.els) :
           LET e == x.els[i]
           IN isHTMLElement(e) =>
                /\ Has(errorElements, e) =>
                     /\ Has(errorElements', e)
                     /\ Has(elementsToObserve', e) <=> Has(elementsToObserve, e)
                     /\ (e \in observedByIO') <=> (e \in observedByIO)
                     /\ dom'[e] = dom[e]
                     /\ \A cb \in NewCallbacks : cb.n # e
                     /\ StartedFor(e) = {}
                /\ (Fresh(e) /\ class_error \in dom[e].classes) =>
                     /\ Has(elementsToObserve', e) \/ StartedFor(e) # {}
                     /\ \E cb \in NewCallbacks :
                          cb.k = "removeClass" /\ cb.n = e /\ cb.c = class_error]_vars

\* addElements() has just admitted an element that still carries class_error
\* from a failure this controller no longer tracks; the removal is queued
C32_Witness ==
  /\ lastOp = "addElements"
  /\ errorElements = <<>>
  /\ Has(elementsToObserve, "e1")
  /\ class_error \in dom["e1"].classes
  /\ Queued("removeClass", "e1", class_error)

\* the controller's own state and the page are what the pass
\* retryFailedLoads() makes of them
PassApplied ==
  LET s == retryFailedLoads(State)
  IN /\ elementsToObserve' = s.elementsToObserve /\ observedByIO' = s.observedByIO
     /\ errorElements' = s.errorElements /\ retryData' = s.retryData
     /\ observer' = s.observer /\ ioTargets' = s.ioTargets
     /\ dom' = s.dom /\ raf' = s.raf /\ timers' = s.timers /\ attempts' = s.attempts

\* C33: the 'online' listener is attached exactly when the controller was
\* constructed with retry_on_online and has not been destroyed since: the
\* constructor attaches it under retry_on_online only, destroy() detaches it,
\* and no other step attaches or detaches it. An 'online' event is handled
\* only while the listener is attached, and then does what a retryFailedLoads()
\* call does in the same state. A retryFailedLoads() call runs the pass with
\* or without the listener: every eligible errored element has its retry
\* count raised. A pass over an empty errored set changes nothing.
C33_RetryTriggers ==
  /\ [](onlineHandler => constructed /\ settings.retry_on_online)
  /\ [][/\ (\E x \in Args : Construct(x)) => (onlineHandler' = settings.retry_on_online)
        /\ Destroy => ~onlineHandler'
        /\ (onlineHandler' # onlineHandler) => (Destroy \/ \E x \in Args : Construct(x))
        /\ Online => (onlineHandler /\ PassApplied)
        /\ RetryFailedLoads =>
             /\ PassApplied
             /\ \A n \in Nodes :
                  Eligible(n) => /\ n \in DOMAIN retryData'
                                 /\ retryData'[n].count = RetryDataOf(n).count + 1
        /\ (RetryPass /\ errorElements = <<>>) =>
             UNCHANGED <<observer, ioTargets, ioStale, elementsToObserve, observedByIO,
                         errorElements, retryData, onlineHandler, dom, media, raf,
                         timers, attempts, now>>]_vars

\* an 'online' event has just run a pass that counted a retry of the failed
\* image, on a controller constructed with retry_on_online and not destroyed
C33_Witness ==
  /\ lastOp = "online"
  /\ settings.retry_on_online /\ onlineHandler
  /\ "e1" \in DOMAIN retryData
  /\ retryData["e1"].count = 1
  /\ retryData["e1"].nextAttemptAt = now + BackoffBase

\* C34: once the latest attempt on an element has reached its outcome, the
\* frame callbacks have all run and the element has not been queued again,
\* the element that was revealed, a picture included, does not carry
\* class_loading and carries class_loaded or class_error.
C34_LoadingClassRemoved ==
  \A a \in 1..Len(attempts) :
    LET e == attempts[a].el
    IN (attempts[a].stage = "finalized" /\ Latest(a) /\ raf = <<>> /\ ~Tracked(e)) =>
         /\ class_loading \notin dom[e].classes
         /\ class_loaded \in dom[e].classes \/ class_error \in dom[e].classes

\* C35: in every state in which the frame callbacks have all run, no node
\* carries class_loaded and class_error together.
C35_ExclusiveOutcomeClasses ==
  raf = <<>> =>
    \A n \in Nodes : ~(class_loaded \in dom[n].classes /\ class_error \in dom[n].classes)

\* the attempts of e that have not reached their outcome: waiting on the
\* load_delay timer or on the media
Unfinished(e) == {a \in AttemptsOf(e) : attempts[a].stage # "finalized"}

\* C36: in every state an element has at most one attempt that has not
\* reached its outcome, and one media signal completes at most one attempt.
C36_SingleAttemptInFlight ==
  /\ [](\A e \in Elements : Cardinality(Unfinished(e)) <= 1)
  /\ [][\A n \in Nodes, type \in MediaTypes :
          MediaEvent(n, type) =>
            Cardinality({a \in 1..Len(attempts) :
                           attempts'[a].hasFired /\ ~attempts[a].hasFired}) <= 1]_vars

\* C37: with the visibility detector available, in every state of a
\* constructed controller, and so whenever the constructor, addElements(),
\* update() or retryFailedLoads() has returned, every element of the pending
\* queue is in the observed set and is a target of a live detector.
C37_QueuedIsWatched ==
  (ioAvailable /\ constructed) =>
    \A e \in Members(elementsToObserve) :
      observer /\ e \in observedByIO /\ e \in ioTargets

\* addElements() has just queued the image on a controller that had been
\* destroyed, and the image is watched by a new detector
C37_Witness ==
  /\ lastOp = "addElements"
  /\ ioAvailable /\ Destroyed
  /\ elementsToObserve = <<"e1">>
  /\ observer /\ "e1" \in ioTargets

\* C38: a detector entry for a pending or observed target that is not
\* effectively intersecting, while skip_invisible does not find the target on
\* screen, changes nothing: the target is pending, observed and registered as
\* before, no attempt starts, no callback runs, nothing is scheduled, and the
\* controller's records and every node of the page are as they were.
C38_NoOpEntry ==
  [][\A e \in Elements, i \in BOOLEAN, v \in BOOLEAN :
       (/\ DetectorEvent(e, i, v)
        /\ Tracked(e)
        /\ ~isEffectivelyIntersecting(State, Entry(e, i, v))
        /\ ~(settings.skip_invisible /\ e \in onScreen)) =>
         /\ Has(elementsToObserve', e) <=> Has(elementsToObserve, e)
         /\ e \in observedByIO' /\ e \in ioTargets' /\ observer'
         /\ UNCHANGED <<observer, ioTargets, ioStale, elementsToObserve, observedByIO,
                        errorElements, retryData, onlineHandler, dom, media, raf,
                        timers, attempts, now>>]_vars

\* the detector has just reported the constructed image as not intersecting:
\* the image is pending, observed and registered and nothing has started
C38_Witness ==
  /\ lastOp = "entry"
  /\ elementsToObserve = <<"e1">> /\ observedByIO = {"e1"} /\ ioTargets = {"e1"}
  /\ attempts = <<>> /\ raf = <<>>
  /\ dom["e1"].classes = {}

\* C39: in every state each element of the observed set is in the pending
\* queue; and a step that takes an element out of one of the two (a reveal
\* by an entry, loadAllNow(), update(), destroy()) leaves it in neither unless
\* the same step admits it again, in which case it is in both.
C39_ObservedWithinQueue ==
  /\ [](observedByIO \subseteq Members(elementsToObserve))
  /\ [][\A e \in Elements :
          (\/ e \in observedByIO /\ e \notin observedByIO'
           \/ Has(elementsToObserve, e) /\ ~Has(elementsToObserve', e)) =>
            /\ e \notin observedByIO'
            /\ ~Has(elementsToObserve', e)]_vars

\* an entry has just revealed the observed image: it has left both sets
C39_Witness ==
  /\ lastOp = "entry"
  /\ Len(attempts) = 1 /\ attempts[1].el = "e1"
  /\ "e1" \notin observedByIO /\ ~Has(elementsToObserve, "e1")

====
